---- MODULE Spec2Model ----
(***************************************************************************)
(* SmartNotesX backend: the bookmark, job/application and note/user        *)
(* lifecycles as a state machine.  Every request is a process that moves   *)
(* from one awaited database or media-store call to the next; each such    *)
(* call is one atomic step, and steps of different requests interleave.    *)
(***************************************************************************)
EXTENDS Integers, Sequences, FiniteSets, TLC

\* ------------------------------------------------------------------ bounds
\* request slots (requests ever issued in one run)
MaxReq == 3
\* the clock runs over 0..MaxTime
MaxTime == 1
\* requests per run of the administrator's routes (at most MaxReq)
MaxAdminReq == 2
\* requests per run of POST /notes with every kind of file (at most MaxReq)
MaxUploadReq == 2
\* requests per run of PUT /notes/:id with every kind of body (at most MaxReq)
MaxUpdateReq == 2
MaxMediaReq == 2

\* populations of the model (identifiers are opaque ObjectIds in the code)
UserIds == {1, 2, 3}
NoteIds == {1, 2}
JobIds == {1, 2}
FileIds == {1, 2}
Slots == 1..MaxReq
\* user 1 is the administrator, the others are students
AdminIds == {1}

\* ------------------------------------------------------------- constants
USER_ROLES == [STUDENT |-> "student", ADMIN |-> "admin"]
FILE_TYPES ==
    [PDF |-> "application/pdf",
     DOCX |-> "application/vnd.openxmlformats-officedocument.wordprocessingml.document",
     DOC |-> "application/msword",
     JPG |-> "image/jpeg",
     PNG |-> "image/png"]
ALLOWED_FILE_TYPES == {FILE_TYPES[k] : k \in DOMAIN FILE_TYPES}
JobStatuses == {"active", "closed", "draft"}

VARIABLES
    users,          \* User collection: id -> row
    notes,          \* Note collection: id -> row
    bookmarks,      \* Bookmark collection: <<user, note>> -> number of rows
    jobs,           \* Job collection: id -> row
    applications,   \* Application collection: <<job, applicant>> -> number of rows
    media,          \* media store: file id -> state ("free", "stored", "destroyed") and resource type
    now,            \* the clock read by new Date()
    req,            \* the requests: slot -> record (position, locals, answer)
    reply,          \* the answer to the latest public read of the job board
    serial          \* TRUE when the clients issue one request at a time

vars == <<users, notes, bookmarks, jobs, applications, media, now, req, reply, serial>>

\* ------------------------------------------------------------ array helpers
\* MongoDB $push: append, duplicates allowed
Push(list, x) == Append(list, x)
\* MongoDB $pull: remove every occurrence
Pull(list, x) == SelectSeq(list, LAMBDA e : e # x)
Count(list, x) == Cardinality({i \in DOMAIN list : list[i] = x})
Contains(list, x) == \E i \in DOMAIN list : list[i] = x
\* identifiers are handed out in order
Lowest(S) == CHOOSE x \in S : \A y \in S : x <= y

\* String.prototype.trim (the schema's trim setter, and tag.trim())
RECURSIVE TrimStart(_)
TrimStart(s) == IF s # <<>> /\ Head(s) = " " THEN TrimStart(Tail(s)) ELSE s
Reverse(s) == [i \in 1..Len(s) |-> s[Len(s) + 1 - i]]
Trim(s) == Reverse(TrimStart(Reverse(TrimStart(s))))
\* tags.split(',')
RECURSIVE Split(_)
Split(s) ==
    LET commas == {i \in DOMAIN s : s[i] = ","} IN
    IF commas = {} THEN <<s>>
    ELSE LET i == Lowest(commas) IN <<SubSeq(s, 1, i - 1)>> \o Split(SubSeq(s, i + 1, Len(s)))
\* tags.split(',').map(tag => tag.trim())
TagsOf(s) == LET parts == Split(s) IN [i \in DOMAIN parts |-> Trim(parts[i])]

\* ----------------------------------------------------------------- requests
Idle ==
    [op |-> "none", pc |-> "idle", user |-> 0, id |-> 0, status |-> 0,
     msg |-> "", eff |-> {}, ans |-> FALSE, mime |-> "", fid |-> 0, nid |-> 0,
     list |-> <<>>, mediaFailed |-> FALSE]

InFlight(r) == req[r].pc \notin {"idle", "done"}
IsDone(r) == req[r].pc = "done"
Quiescent == \A r \in Slots : ~InFlight(r)

\* A slot is taken when its request arrives; slots are taken in arrival order.
\* In a serial run the client waits for the answer before the next request.
CanStart(r) ==
    /\ req[r].pc = "idle"
    /\ IF r = 1 THEN TRUE ELSE req[r - 1].pc # "idle"
    /\ serial => Quiescent

Begin(r, op, u, id, pc) ==
    [Idle EXCEPT !.op = op, !.pc = pc, !.user = u, !.id = id]
Goto(r, pc) == [req EXCEPT ![r].pc = pc]
Answer(q, status) == [q EXCEPT !.pc = "done", !.status = status]
AnswerMsg(q, status, msg) == [q EXCEPT !.pc = "done", !.status = status, !.msg = msg]
Effect(q, tag) == [q EXCEPT !.eff = @ \cup {tag}]

\* protect: the caller is a user the token resolves to
Callers == {u \in UserIds : users[u].exists}
\* isAdmin: req.user && req.user.role === USER_ROLES.ADMIN (0: no req.user)
AnyUserIsAdmin(u) == u \in UserIds /\ users[u].exists
IsAdminUser(u) == u \in UserIds /\ users[u].exists /\ users[u].role = USER_ROLES.ADMIN

\* ------------------------------------------------------------ initial rows
NoUser == [exists |-> FALSE, role |-> "student", isActive |-> TRUE,
           uploadedNotes |-> <<>>, bookmarks |-> <<>>]
NewUser(role) == [NoUser EXCEPT !.exists = TRUE, !.role = role]
\* text is a sequence of characters
NoNote == [exists |-> FALSE, used |-> FALSE, uploadedBy |-> 0, fileType |-> "",
           cloudinaryPublicId |-> 0, fileUrl |-> 0, bookmarkedBy |-> <<>>,
           title |-> <<>>, description |-> <<>>, subject |-> <<>>, semester |-> 0,
           branch |-> <<>>, tags |-> <<>>, status |-> "", views |-> 0, downloads |-> 0]
\* a note as Note.create stores it: the metadata of the request that passed
\* noteValidation, the file of the upload, the schema's defaults
CreatedNote(u, mime, f, body) ==
    [NoNote EXCEPT !.exists = TRUE, !.used = TRUE, !.uploadedBy = u, !.fileType = mime,
                   !.cloudinaryPublicId = f, !.fileUrl = f,
                   !.title = Trim(body.title),
                   !.description = IF "description" \in DOMAIN body THEN Trim(body.description) ELSE <<>>,
                   !.subject = Trim(body.subject), !.semester = body.semester,
                   !.branch = Trim(body.branch),
                   !.tags = IF "tags" \in DOMAIN body /\ body.tags # <<>> THEN TagsOf(body.tags) ELSE <<>>,
                   !.status = "approved"]
\* the metadata of a well-formed upload
GoodBody == [title |-> <<"o", "l", "d">>, description |-> <<"d">>, subject |-> <<"s">>,
             semester |-> 1, branch |-> <<"C", "S", "E">>]
NoJob == [exists |-> FALSE, used |-> FALSE, type |-> "Job", status |-> "active", applicationDeadline |-> 0,
          postedBy |-> 0, applicants |-> <<>>, views |-> 0]
NoReply == [op |-> "none", status |-> 0, at |-> 0, query |-> <<>>, jobs |-> <<>>]

\* ------------------------------------------------------------------ indexes
\* Bookmark: unique compound index on (user, note)
BookmarkIndexLoose == FALSE
BookmarkIndexUnique == TRUE
\* Application: unique compound index on (job, applicant)
ApplicationIndexLoose == FALSE
ApplicationIndexUnique == TRUE

\* ---------------------------------------------------------------- bookmarks
\* addBookmark: Note.findById
AddBookmark_findNote(r) ==
    /\ CanStart(r)
    /\ \E u \in Callers, n \in NoteIds :
        LET q == Begin(r, "addBookmark", u, n, "add_findOne") IN
        req' = [req EXCEPT ![r] = IF notes[n].exists THEN q ELSE Answer(q, 404)]
    /\ UNCHANGED <<users, notes, bookmarks, jobs, applications, media, now, reply, serial>>

\* addBookmark: Bookmark.findOne
AddBookmarkExisting(u, n) == bookmarks[<<u, n>>] > 0
AddBookmark_findOne(r) ==
    /\ req[r].pc = "add_findOne"
    /\ req' = [req EXCEPT ![r] =
                 IF AddBookmarkExisting(req[r].user, req[r].id)
                 THEN Answer(@, 400) ELSE [@ EXCEPT !.pc = "add_create"]]
    /\ UNCHANGED <<users, notes, bookmarks, jobs, applications, media, now, reply, serial>>

\* addBookmark: Bookmark.create; the unique index rejects a second row, and
\* the rejection lands in the catch block (500)
AddBookmark_create(r) ==
    /\ req[r].pc = "add_create"
    /\ LET p == <<req[r].user, req[r].id>> IN
       IF BookmarkIndexUnique /\ bookmarks[p] > 0
       THEN /\ req' = [req EXCEPT ![r] = Answer(@, 500)]
            /\ UNCHANGED bookmarks
       ELSE /\ bookmarks' = [bookmarks EXCEPT ![p] = @ + 1]
            /\ req' = [req EXCEPT ![r] = Effect([@ EXCEPT !.pc = "add_pushUser"], "Bookmark+")]
    /\ UNCHANGED <<users, notes, jobs, applications, media, now, reply, serial>>

\* addBookmark: User.findByIdAndUpdate $push bookmarks
AddBookmark_pushUser(r) ==
    /\ req[r].pc = "add_pushUser"
    /\ LET u == req[r].user IN
       IF users[u].exists
       THEN /\ users' = [users EXCEPT ![u].bookmarks = Push(@, req[r].id)]
            /\ req' = [req EXCEPT ![r] = Effect([@ EXCEPT !.pc = "add_pushNote"], "User.bookmarks+")]
       ELSE /\ req' = Goto(r, "add_pushNote")
            /\ UNCHANGED users
    /\ UNCHANGED <<notes, bookmarks, jobs, applications, media, now, reply, serial>>

\* addBookmark: Note.findByIdAndUpdate $push bookmarkedBy, then 201
AddBookmark_pushNote(r) ==
    /\ req[r].pc = "add_pushNote"
    /\ LET n == req[r].id IN
       IF notes[n].exists
       THEN /\ notes' = [notes EXCEPT ![n].bookmarkedBy = Push(@, req[r].user)]
            /\ req' = [req EXCEPT ![r] = Answer(Effect(@, "Note.bookmarkedBy+"), 201)]
       ELSE /\ req' = [req EXCEPT ![r] = Answer(@, 201)]
            /\ UNCHANGED notes
    /\ UNCHANGED <<users, bookmarks, jobs, applications, media, now, reply, serial>>

\* removeBookmark: Bookmark.findOneAndDelete removes one matching row
KeepBookmarkRow(bm, u, n) == bm
DeleteBookmarkRow(bm, u, n) == [bm EXCEPT ![<<u, n>>] = @ - 1]
RemoveBookmark_findOneAndDelete(r) ==
    /\ CanStart(r)
    /\ \E u \in Callers, n \in NoteIds :
        LET q == Begin(r, "removeBookmark", u, n, "rm_pullUser") IN
        IF bookmarks[<<u, n>>] = 0
        THEN /\ req' = [req EXCEPT ![r] = Answer(q, 404)]
             /\ UNCHANGED bookmarks
        ELSE /\ bookmarks' = DeleteBookmarkRow(bookmarks, u, n)
             /\ req' = [req EXCEPT ![r] = Effect(q, "Bookmark-")]
    /\ UNCHANGED <<users, notes, jobs, applications, media, now, reply, serial>>

\* removeBookmark: User.findByIdAndUpdate $pull bookmarks
RemoveBookmark_pullUser(r) ==
    /\ req[r].pc = "rm_pullUser"
    /\ LET u == req[r].user IN
       IF users[u].exists /\ Contains(users[u].bookmarks, req[r].id)
       THEN /\ users' = [users EXCEPT ![u].bookmarks = Pull(@, req[r].id)]
            /\ req' = [req EXCEPT ![r] = Effect([@ EXCEPT !.pc = "rm_pullNote"], "User.bookmarks-")]
       ELSE /\ req' = Goto(r, "rm_pullNote")
            /\ UNCHANGED users
    /\ UNCHANGED <<notes, bookmarks, jobs, applications, media, now, reply, serial>>

\* removeBookmark: Note.findByIdAndUpdate $pull bookmarkedBy, then 200
RemoveBookmark_pullNote(r) ==
    /\ req[r].pc = "rm_pullNote"
    /\ LET n == req[r].id IN
       IF notes[n].exists /\ Contains(notes[n].bookmarkedBy, req[r].user)
       THEN /\ notes' = [notes EXCEPT ![n].bookmarkedBy = Pull(@, req[r].user)]
            /\ req' = [req EXCEPT ![r] = Answer(Effect(@, "Note.bookmarkedBy-"), 200)]
       ELSE /\ req' = [req EXCEPT ![r] = Answer(@, 200)]
            /\ UNCHANGED notes
    /\ UNCHANGED <<users, bookmarks, jobs, applications, media, now, reply, serial>>

\* checkBookmark: Bookmark.findOne, isBookmarked = !!bookmark
CheckBookmark(r) ==
    /\ CanStart(r)
    /\ \E u \in Callers, n \in NoteIds :
        req' = [req EXCEPT ![r] =
                  Answer([Begin(r, "checkBookmark", u, n, "done")
                            EXCEPT !.ans = bookmarks[<<u, n>>] > 0], 200)]
    /\ UNCHANGED <<users, notes, bookmarks, jobs, applications, media, now, reply, serial>>

\* --------------------------------------------------------------------- jobs
\* the clock advances
Tick ==
    /\ now < MaxTime
    /\ now' = now + 1
    /\ UNCHANGED <<users, notes, bookmarks, jobs, applications, media, req, reply, serial>>

\* new Date(job.applicationDeadline) < new Date()
DeadlineNeverPassed(job, t) == FALSE
DeadlinePassed(job, t) == job.applicationDeadline < t

\* applyForJob: Job.findById, then the deadline check
ApplyForJob_findJob(r) ==
    /\ CanStart(r)
    /\ \E u \in Callers, j \in JobIds :
        LET q == Begin(r, "applyForJob", u, j, "apply_findOne") IN
        req' = [req EXCEPT ![r] =
                  IF ~jobs[j].exists THEN AnswerMsg(q, 404, "Job not found")
                  ELSE IF DeadlinePassed(jobs[j], now)
                       THEN AnswerMsg(q, 400, "Application deadline has passed")
                       ELSE q]
    /\ UNCHANGED <<users, notes, bookmarks, jobs, applications, media, now, reply, serial>>

\* applyForJob: Application.findOne
ApplyNeverExisting(j, u) == FALSE
ApplyExisting(j, u) == applications[<<j, u>>] > 0
ApplyForJob_findOne(r) ==
    /\ req[r].pc = "apply_findOne"
    /\ req' = [req EXCEPT ![r] =
                 IF ApplyExisting(req[r].id, req[r].user)
                 THEN AnswerMsg(@, 400, "You have already applied for this job")
                 ELSE [@ EXCEPT !.pc = "apply_create"]]
    /\ UNCHANGED <<users, notes, bookmarks, jobs, applications, media, now, reply, serial>>

\* applyForJob: Application.create; the unique index rejects a second row,
\* and the rejection lands in the catch block (500)
ApplyForJob_create(r) ==
    /\ req[r].pc = "apply_create"
    /\ LET p == <<req[r].id, req[r].user>> IN
       IF ApplicationIndexUnique /\ applications[p] > 0
       THEN /\ req' = [req EXCEPT ![r] = Answer(@, 500)]
            /\ UNCHANGED applications
       ELSE /\ applications' = [applications EXCEPT ![p] = @ + 1]
            /\ req' = [req EXCEPT ![r] = Effect([@ EXCEPT !.pc = "apply_updateJob"], "Application+")]
    /\ UNCHANGED <<users, notes, bookmarks, jobs, media, now, reply, serial>>

\* { $push: { applicants: req.user._id }, $inc: { views: 1 } }
AppliedJobNoViews(job, u) == [job EXCEPT !.applicants = Push(@, u)]
AppliedJob(job, u) == [job EXCEPT !.applicants = Push(@, u), !.views = @ + 1]
\* applyForJob: Job.findByIdAndUpdate $push applicants, $inc views, then 201
ApplyForJob_updateJob(r) ==
    /\ req[r].pc = "apply_updateJob"
    /\ LET j == req[r].id IN
       IF jobs[j].exists
       THEN /\ jobs' = [jobs EXCEPT ![j] = AppliedJob(@, req[r].user)]
            /\ req' = [req EXCEPT ![r] = Answer(Effect(@, "Job.applicants+"), 201)]
       ELSE /\ req' = [req EXCEPT ![r] = Answer(@, 201)]
            /\ UNCHANGED jobs
    /\ UNCHANGED <<users, notes, bookmarks, applications, media, now, reply, serial>>

\* the requests of a run of the routes behind protect and isAdmin
AdminSlots == 1..MaxAdminReq
\* the routes behind protect and isAdmin
AdminRoutes ==
    {"createJob", "updateJob", "deleteJob", "getJobApplications", "getDashboardStats",
     "getAllUsers", "toggleUserStatus", "deleteUser", "getAllNotes", "deleteNoteAdmin"}

\* protect, when the token is missing, invalid or expired: 401, and the
\* request goes no further
Protect_reject(r, routes) ==
    /\ CanStart(r)
    /\ \E op \in routes :
        req' = [req EXCEPT ![r] = Answer(Begin(r, op, 0, 0, "done"), 401)]
    /\ UNCHANGED <<users, notes, bookmarks, jobs, applications, media, now, reply, serial>>

\* the schema's validators on the fields of a job that a body gives
ValidJobFields(body) ==
    /\ "type" \in DOMAIN body => body.type \in {"Job", "Internship"}
    /\ "status" \in DOMAIN body => body.status \in JobStatuses
\* the required paths of a job (of those the model keeps)
ValidNewJob(body) ==
    /\ {"type", "applicationDeadline"} \subseteq DOMAIN body
    /\ ValidJobFields(body)
\* a row with the fields of the body written over it
WithFields(row, body) ==
    [f \in DOMAIN row |-> IF f \in DOMAIN body THEN body[f] ELSE row[f]]
FreeJobs == {j \in JobIds : ~jobs[j].used}
\* the mark of a body that gives the applicants or the views of a job
SetsCounts(body, tag) == IF {"applicants", "views"} \cap DOMAIN body # {} THEN {tag} ELSE {}

\* the bodies of POST /jobs and PUT /jobs/:id
CreateBodies ==
    { [type |-> "Job", applicationDeadline |-> MaxTime],
      [type |-> "Job", applicationDeadline |-> MaxTime, views |-> 2],
      [status |-> "draft"] }
JobBodies ==
    { [status |-> "closed"], [views |-> 2], [status |-> "open"] }

\* isAdmin, then createJob: Job.create({ ...req.body, postedBy })
CreateJob(r, bodies) ==
    /\ CanStart(r)
    /\ FreeJobs # {}
    /\ \E u \in Callers, body \in bodies :
        LET q == Begin(r, "createJob", u, Lowest(FreeJobs), "done") IN
        IF ~IsAdminUser(u)
        THEN /\ req' = [req EXCEPT ![r] = Answer([q EXCEPT !.id = 0], 403)]
             /\ UNCHANGED jobs
        ELSE IF ~ValidNewJob(body)
        THEN /\ req' = [req EXCEPT ![r] = Answer([q EXCEPT !.id = 0], 500)]
             /\ UNCHANGED jobs
        ELSE /\ jobs' = [jobs EXCEPT ![q.id] =
                           WithFields([NoJob EXCEPT !.exists = TRUE, !.used = TRUE],
                                      body @@ [postedBy |-> u])]
             /\ req' = [req EXCEPT ![r] =
                          Answer([q EXCEPT !.eff = {"Job+"} \cup SetsCounts(body, "Job.views=")], 201)]
    /\ UNCHANGED <<users, notes, bookmarks, applications, media, now, reply, serial>>

\* isAdmin, then updateJob: Job.findById and the ownership check
UpdateJob_find(r, bodies) ==
    /\ CanStart(r)
    /\ \E u \in Callers, j \in JobIds, body \in bodies :
        LET q == Begin(r, "updateJob", u, j, "uj_update") IN
        req' = [req EXCEPT ![r] =
                  IF ~IsAdminUser(u) THEN Answer(q, 403)
                  ELSE IF ~jobs[j].exists THEN Answer(q, 404)
                  ELSE IF jobs[j].postedBy # u /\ users[u].role # "admin" THEN Answer(q, 403)
                  ELSE [q EXCEPT !.list = <<body>>]]
    /\ UNCHANGED <<users, notes, bookmarks, jobs, applications, media, now, reply, serial>>

\* updateJob: Job.findByIdAndUpdate(id, req.body, { runValidators }), then 200
UpdateJob_update(r) ==
    /\ req[r].pc = "uj_update"
    /\ LET j == req[r].id
           body == Head(req[r].list)
           q == [req[r] EXCEPT !.list = <<>>] IN
       IF ~ValidJobFields(body)
       THEN /\ req' = [req EXCEPT ![r] = Answer(q, 500)]
            /\ UNCHANGED jobs
       ELSE IF jobs[j].exists /\ WithFields(jobs[j], body) # jobs[j]
       THEN /\ jobs' = [jobs EXCEPT ![j] = WithFields(@, body)]
            /\ req' = [req EXCEPT ![r] =
                         Answer([q EXCEPT !.eff = {"Job~"} \cup SetsCounts(body, "Job.views~")], 200)]
       ELSE /\ req' = [req EXCEPT ![r] = Answer(q, 200)]
            /\ UNCHANGED jobs
    /\ UNCHANGED <<users, notes, bookmarks, applications, media, now, reply, serial>>

\* isAdmin, then a handler that only reads: getJobApplications
\* (Application.find({ job })), getDashboardStats, getAllUsers, getAllNotes
AdminReads == {"getJobApplications", "getDashboardStats", "getAllUsers", "getAllNotes"}
AdminRead(r) ==
    /\ CanStart(r)
    /\ \E u \in Callers, op \in AdminReads :
        LET q == Begin(r, op, u, 0, "done") IN
        req' = [req EXCEPT ![r] = Answer(q, IF ~IsAdminUser(u) THEN 403 ELSE 200)]
    /\ UNCHANGED <<users, notes, bookmarks, jobs, applications, media, now, reply, serial>>

\* isAdmin, then deleteJob: Job.findById and the ownership check
DeleteJob_findJob(r) ==
    /\ CanStart(r)
    /\ \E u \in Callers, j \in JobIds :
        LET q == Begin(r, "deleteJob", u, j, "dj_deleteMany") IN
        req' = [req EXCEPT ![r] =
                  IF ~IsAdminUser(u) THEN Answer(q, 403)
                  ELSE IF ~jobs[j].exists THEN Answer(q, 404)
                  ELSE IF jobs[j].postedBy # u /\ users[u].role # "admin" THEN Answer(q, 403)
                  ELSE q]
    /\ UNCHANGED <<users, notes, bookmarks, jobs, applications, media, now, reply, serial>>

\* deleteJob: Application.deleteMany({ job })
DeleteJob_deleteMany(r) ==
    /\ req[r].pc = "dj_deleteMany"
    /\ applications' = [p \in DOMAIN applications |->
                          IF p[1] = req[r].id THEN 0 ELSE applications[p]]
    /\ req' = [req EXCEPT ![r] =
                 IF applications' # applications
                 THEN Effect([@ EXCEPT !.pc = "dj_deleteJob"], "Application-")
                 ELSE [@ EXCEPT !.pc = "dj_deleteJob"]]
    /\ UNCHANGED <<users, notes, bookmarks, jobs, media, now, reply, serial>>

\* deleteJob: Job.findByIdAndDelete, then 200
DeleteJob_findByIdAndDelete(r) ==
    /\ req[r].pc = "dj_deleteJob"
    /\ LET j == req[r].id IN
       IF jobs[j].exists
       THEN /\ jobs' = [jobs EXCEPT ![j].exists = FALSE]
            /\ req' = [req EXCEPT ![r] = Answer(Effect(@, "Job-"), 200)]
       ELSE /\ req' = [req EXCEPT ![r] = Answer(@, 200)]
            /\ UNCHANGED jobs
    /\ UNCHANGED <<users, notes, bookmarks, applications, media, now, reply, serial>>

\* a job document as a response carries it
JobDoc(j) == [id |-> j, type |-> jobs[j].type, status |-> jobs[j].status,
              applicationDeadline |-> jobs[j].applicationDeadline]

\* getJobById (public): Job.findById, 404 or the document
GetJobById ==
    /\ \E j \in JobIds :
        reply' = IF jobs[j].exists
                 THEN [op |-> "getJobById", status |-> 200, at |-> now,
                       query |-> <<j>>, jobs |-> <<JobDoc(j)>>]
                 ELSE [op |-> "getJobById", status |-> 404, at |-> now,
                       query |-> <<j>>, jobs |-> <<>>]
    /\ UNCHANGED <<users, notes, bookmarks, jobs, applications, media, now, req, serial>>

\* getJobs (public): the query parameters, "undefined" for one not given
Undefined == "undefined"
DefaultLimit == 12
StatusParams == {Undefined, ""} \cup JobStatuses
TypeParams == {Undefined, "Job"}
\* status = 'active' by default, when the parameter is not given
QueryStatus(status) == IF status = Undefined THEN "active" ELSE status
\* query.applicationDeadline = { $gte: new Date() }
AnyDeadline(job, t) == TRUE
DeadlineFilter(job, t) == job.applicationDeadline >= t
\* the filter document built from the parameters
JobMatches(job, status, type, t) ==
    /\ job.exists
    /\ job.status = QueryStatus(status)
    /\ type \notin {Undefined, ""} => job.type = type
    /\ DeadlineFilter(job, t)
\* sort by createdAt (identifiers grow with creation), asc or desc
RECURSIVE SortedIds(_, _)
SortedIds(S, order) ==
    IF S = {} THEN <<>>
    ELSE LET x == IF order = "desc"
                  THEN CHOOSE a \in S : \A b \in S : a >= b
                  ELSE CHOOSE a \in S : \A b \in S : a <= b
         IN <<x>> \o SortedIds(S \ {x}, order)
\* .limit(limit).skip((page - 1) * limit)
Page(list, page, limit) ==
    LET skip == (page - 1) * limit
        last == IF skip + limit < Len(list) THEN skip + limit ELSE Len(list)
    IN [i \in 1..(IF last > skip THEN last - skip ELSE 0) |-> list[skip + i]]

GetJobs ==
    /\ \E status \in StatusParams, type \in TypeParams, page \in {1, 2},
          limit \in {1, DefaultLimit}, order \in {"asc", "desc"} :
        LET hits == {j \in JobIds : JobMatches(jobs[j], status, type, now)}
            ids == Page(SortedIds(hits, order), page, limit)
        IN reply' = [op |-> "getJobs", status |-> 200, at |-> now,
                     query |-> <<status, type, page, limit, order>>,
                     jobs |-> [i \in DOMAIN ids |-> JobDoc(ids[i])]]
    /\ UNCHANGED <<users, notes, bookmarks, jobs, applications, media, now, req, serial>>

\* -------------------------------------------------------------------- notes
\* req.file.mimetype.startsWith('image/'), over the accepted MIME types
StartsWithImage(mime) == mime \in {FILE_TYPES.JPG, FILE_TYPES.PNG}
\* uploadNote: the resource type of the upload, from req.file.mimetype
ResourceType(mime) == IF StartsWithImage(mime) THEN "image" ELSE "raw"
\* the resource type a delete passes to destroy, from note.fileType
DestroyAsRaw(fileType) == "raw"
DestroyResourceType(fileType) == IF StartsWithImage(fileType) THEN "image" ELSE "raw"

NoFile == [state |-> "free", resourceType |-> ""]
FreeFiles == {f \in FileIds : media[f].state = "free"}
FreeNotes == {n \in NoteIds : ~notes[n].used}
\* uploads that still have to take a file identifier, or a note identifier
AwaitingFile == {r \in Slots : req[r].pc = "up_upload"}
AwaitingNote == {r \in Slots : req[r].pc \in {"up_upload", "up_create"}}

\* cloudinary.uploader.destroy(public_id, { resource_type }): removes the file
\* of that identifier and resource type; "not found" when there is none
DestroyNothing(m, f, rt) == m
Destroy(m, f, rt) ==
    IF f \in FileIds /\ m[f].state = "stored" /\ m[f].resourceType = rt
    THEN [m EXCEPT ![f].state = "destroyed"]
    ELSE m

\* the fields of a found note that a delete keeps using
NoteRef(n) == [id |-> n, cloudinaryPublicId |-> notes[n].cloudinaryPublicId,
               fileType |-> notes[n].fileType, uploadedBy |-> notes[n].uploadedBy]
DeletedNote == [NoNote EXCEPT !.used = TRUE]

\* POST /notes, after protect: uploadSingle and handleUploadError (the file
\* filter, the size limit), noteValidation and validate, then uploadNote's
\* own check that there is a file.  The stage that answers, or "upload".
MAX_FILE_SIZE == 10 * 1024 * 1024
NoReqFile == [present |-> FALSE, mimetype |-> "", size |-> 0]
ReqFile(mime, size) == [present |-> TRUE, mimetype |-> mime, size |-> size]
AnyFileType(mime) == TRUE
FileFilter(mime) == mime \in ALLOWED_FILE_TYPES
\* noteValidation: title, subject, semester and branch are required, the
\* title of 3 to 100 characters, the semester an integer of 1 to 8, the
\* description optional and of at most 500 characters (strings are trimmed)
NoteValidation(body) ==
    /\ "title" \in DOMAIN body /\ Len(Trim(body.title)) >= 3 /\ Len(Trim(body.title)) <= 100
    /\ "subject" \in DOMAIN body /\ Trim(body.subject) # <<>>
    /\ "semester" \in DOMAIN body /\ body.semester >= 1 /\ body.semester <= 8
    /\ "branch" \in DOMAIN body /\ Trim(body.branch) # <<>>
    /\ "description" \in DOMAIN body => Len(Trim(body.description)) <= 500
PostNoteStage(file, body) ==
    IF file.present /\ ~FileFilter(file.mimetype) THEN "fileFilter"
    ELSE IF file.present /\ file.size > MAX_FILE_SIZE THEN "fileSize"
    ELSE IF ~NoteValidation(body) THEN "validate"
    ELSE IF ~file.present THEN "uploadNote"
    ELSE "upload"
StageMessage(stage) ==
    CASE stage = "fileFilter" -> "Invalid file type. Only PDF, DOCX, DOC, JPG, and PNG are allowed."
      [] stage = "fileSize" -> "File size too large. Maximum size is 10MB."
      [] stage = "validate" -> "errors"
      [] stage = "uploadNote" -> "Please upload a file"

\* the files and bodies of the runs that are about what follows the upload
GoodFiles == {ReqFile(FILE_TYPES.PDF, MAX_FILE_SIZE), ReqFile(FILE_TYPES.PNG, MAX_FILE_SIZE),
              NoReqFile}
\* the files and bodies of the runs that are about the stages
AllFiles == {ReqFile(FILE_TYPES.PDF, MAX_FILE_SIZE), ReqFile(FILE_TYPES.PDF, MAX_FILE_SIZE + 1),
             ReqFile("text/plain", 1), ReqFile("text/plain", MAX_FILE_SIZE + 1), NoReqFile}
AllBodies == {GoodBody, [GoodBody EXCEPT !.title = <<" ", "a", "b">>],
              [subject |-> <<"s">>, semester |-> 9, branch |-> <<"I", "T">>]}

\* POST /notes up to uploadNote's resource type (identifiers of the model are
\* finite: an upload starts only while one is left for it)
UploadNote_start(r, files, bodies) ==
    /\ CanStart(r)
    /\ Cardinality(FreeFiles) > Cardinality(AwaitingFile)
    /\ Cardinality(FreeNotes) > Cardinality(AwaitingNote)
    /\ \E u \in Callers, file \in files, body \in bodies :
        LET stage == PostNoteStage(file, body)
            q == [Begin(r, "uploadNote", u, 0, "up_upload")
                    EXCEPT !.mime = file.mimetype, !.list = <<[file |-> file, body |-> body]>>] IN
        req' = [req EXCEPT ![r] =
                  IF stage = "upload" THEN q ELSE AnswerMsg(q, 400, StageMessage(stage))]
    /\ UNCHANGED <<users, notes, bookmarks, jobs, applications, media, now, reply, serial>>

\* a rejected upload lands in the catch block: 500, once
UploadRetried(q) == [q EXCEPT !.mediaFailed = TRUE]
UploadRejected(q) == [Answer(q, 500) EXCEPT !.mediaFailed = TRUE]
\* uploadNote: uploadToCloudinary resolves with a new public_id, or rejects
UploadNote_upload(r) ==
    /\ req[r].pc = "up_upload"
    /\ \E ok \in BOOLEAN :
        IF ok
        THEN LET f == Lowest(FreeFiles) IN
             /\ media' = [media EXCEPT ![f] = [state |-> "stored",
                                               resourceType |-> ResourceType(req[r].mime)]]
             /\ req' = [req EXCEPT ![r] = Effect([@ EXCEPT !.pc = "up_create", !.fid = f], "File+")]
        ELSE /\ req' = [req EXCEPT ![r] = UploadRejected(@)]
             /\ UNCHANGED media
    /\ UNCHANGED <<users, notes, bookmarks, jobs, applications, now, reply, serial>>

\* uploadNote: Note.create
UploadNote_create(r) ==
    /\ req[r].pc = "up_create"
    /\ LET n == Lowest(FreeNotes) IN
       /\ notes' = [notes EXCEPT ![n] = CreatedNote(req[r].user, req[r].mime, req[r].fid,
                                                    Head(req[r].list).body)]
       /\ req' = [req EXCEPT ![r] = Effect([@ EXCEPT !.pc = "up_pushUser", !.nid = n], "Note+")]
    /\ UNCHANGED <<users, bookmarks, jobs, applications, media, now, reply, serial>>

\* uploadNote: User.findByIdAndUpdate $push uploadedNotes
UploadNote_pushUser(r) ==
    /\ req[r].pc = "up_pushUser"
    /\ LET u == req[r].user IN
       IF users[u].exists
       THEN /\ users' = [users EXCEPT ![u].uploadedNotes = Push(@, req[r].nid)]
            /\ req' = [req EXCEPT ![r] = Effect([@ EXCEPT !.pc = "up_populate"], "User.uploadedNotes+")]
       ELSE /\ req' = Goto(r, "up_populate")
            /\ UNCHANGED users
    /\ UNCHANGED <<notes, bookmarks, jobs, applications, media, now, reply, serial>>

\* uploadNote: Note.findById(note._id).populate, then 201
UploadNote_populate(r) ==
    /\ req[r].pc = "up_populate"
    /\ req' = [req EXCEPT ![r] = [Answer(@, 201) EXCEPT !.ans = notes[req[r].nid].exists]]
    /\ UNCHANGED <<users, notes, bookmarks, jobs, applications, media, now, reply, serial>>

\* the steps deleteNote and deleteNoteAdmin share, from position `pc` to `next`
\* cloudinary.uploader.destroy resolves, or rejects (500)
DestroyStep(r, pc, next) ==
    /\ req[r].pc = pc
    /\ \E ok \in BOOLEAN :
        IF ok
        THEN LET ref == Head(req[r].list) IN
             /\ media' = Destroy(media, ref.cloudinaryPublicId, DestroyResourceType(ref.fileType))
             /\ req' = [req EXCEPT ![r] =
                          IF media' # media THEN Effect([@ EXCEPT !.pc = next], "File-")
                          ELSE [@ EXCEPT !.pc = next]]
        ELSE /\ req' = [req EXCEPT ![r] = [Answer(@, 500) EXCEPT !.mediaFailed = TRUE]]
             /\ UNCHANGED media
    /\ UNCHANGED <<users, notes, bookmarks, jobs, applications, now, reply, serial>>
\* User.findByIdAndUpdate(note.uploadedBy, $pull uploadedNotes)
PullOwnerStep(r, pc, next) ==
    /\ req[r].pc = pc
    /\ LET ref == Head(req[r].list)
           u == ref.uploadedBy IN
       IF u \in UserIds /\ users[u].exists /\ Contains(users[u].uploadedNotes, ref.id)
       THEN /\ users' = [users EXCEPT ![u].uploadedNotes = Pull(@, ref.id)]
            /\ req' = [req EXCEPT ![r] = Effect([@ EXCEPT !.pc = next], "User.uploadedNotes-")]
       ELSE /\ req' = Goto(r, next)
            /\ UNCHANGED users
    /\ UNCHANGED <<notes, bookmarks, jobs, applications, media, now, reply, serial>>
\* Note.findByIdAndDelete, then 200
DeleteRowStep(r, pc) ==
    /\ req[r].pc = pc
    /\ LET n == req[r].id IN
       IF notes[n].exists
       THEN /\ notes' = [notes EXCEPT ![n] = DeletedNote]
            /\ req' = [req EXCEPT ![r] = Answer(Effect(@, "Note-"), 200)]
       ELSE /\ req' = [req EXCEPT ![r] = Answer(@, 200)]
            /\ UNCHANGED notes
    /\ UNCHANGED <<users, bookmarks, jobs, applications, media, now, reply, serial>>

\* the ownership check of updateNote and deleteNote
OwnerOnly(note, u) == note.uploadedBy # u
NotAuthorized(note, u) == note.uploadedBy # u /\ users[u].role # "admin"

\* deleteNote: Note.findById and the ownership check
DeleteNote_find(r) ==
    /\ CanStart(r)
    /\ \E u \in Callers, n \in NoteIds :
        LET q == Begin(r, "deleteNote", u, n, "dn_destroy") IN
        req' = [req EXCEPT ![r] =
                  IF ~notes[n].exists THEN Answer(q, 404)
                  ELSE IF NotAuthorized(notes[n], u) THEN Answer(q, 403)
                  ELSE [q EXCEPT !.list = <<NoteRef(n)>>]]
    /\ UNCHANGED <<users, notes, bookmarks, jobs, applications, media, now, reply, serial>>
DeleteNote_destroy(r) == DestroyStep(r, "dn_destroy", "dn_pullUser")
DeleteNote_pullUser(r) == PullOwnerStep(r, "dn_pullUser", "dn_deleteRow")
DeleteNote_deleteRow(r) == DeleteRowStep(r, "dn_deleteRow")

\* ---------------------------------------------------------------- updateNote
\* the fields updateNote reads from req.body
EditableFields == {"title", "description", "subject", "semester", "branch", "tags"}
\* a request body is a function from the fields it provides to their values
Provided(body) == DOMAIN body \cap EditableFields
\* a value that `||` passes over, that `if (tags)` rejects
Falsy(f, v) == IF f = "semester" THEN v = 0 ELSE v = <<>>

\* the document after the assignments of updateNote (string paths are trimmed
\* when set)
AssignedBlank(doc, body) ==
    [f \in EditableFields |->
        IF f \in DOMAIN body /\ ~Falsy(f, body[f])
        THEN (IF f = "tags" THEN TagsOf(body[f])
              ELSE IF f = "semester" THEN body[f]
              ELSE Trim(body[f]))
        ELSE IF f = "description" THEN <<>> ELSE doc[f]]
Assigned(doc, body) ==
    [f \in EditableFields |->
        IF f \in DOMAIN body /\ ~Falsy(f, body[f])
        THEN (IF f = "tags" THEN TagsOf(body[f])
              ELSE IF f = "semester" THEN body[f]
              ELSE Trim(body[f]))
        ELSE doc[f]]
\* the paths a save writes: those whose value the assignments changed
ModifiedPaths(doc, new) == {f \in EditableFields : new[f] # doc[f]}
\* the schema's validators, run by save
ValidNote(doc) ==
    /\ Len(doc.title) >= 3 /\ Len(doc.title) <= 100
    /\ Len(doc.description) <= 500
    /\ doc.subject # <<>>
    /\ doc.semester >= 1 /\ doc.semester <= 8
    /\ doc.branch # <<>>

\* the request bodies of the model
UpdateBodies ==
    { <<>>,
      [title |-> <<"n", "e", "w">>],
      [title |-> <<>>, description |-> <<"x">>],
      [title |-> <<"a", "b">>, subject |-> <<"t">>],
      [semester |-> 2, tags |-> <<"a", ",", " ", "b">>],
      [semester |-> 0, branch |-> <<" ", "I", "T">>, tags |-> <<>>] }
\* the one body of the runs that are about who may edit
TitleBodies == { [title |-> <<"n", "e", "w">>] }

\* updateNote: Note.findById, the ownership check, the assignments
UpdateNote_find(r, bodies) ==
    /\ CanStart(r)
    /\ \E u \in Callers, n \in NoteIds, body \in bodies :
        LET q == Begin(r, "updateNote", u, n, "un_save")
            new == Assigned(notes[n], body) IN
        req' = [req EXCEPT ![r] =
                  IF ~notes[n].exists THEN Answer(q, 404)
                  ELSE IF NotAuthorized(notes[n], u) THEN Answer(q, 403)
                  ELSE [q EXCEPT !.list = <<[doc |-> new,
                                             modified |-> ModifiedPaths(notes[n], new),
                                             provided |-> Provided(body)]>>]]
    /\ UNCHANGED <<users, notes, bookmarks, jobs, applications, media, now, reply, serial>>

\* updateNote: note.save() validates, then writes the modified paths of the
\* document; a document deleted meanwhile is not written (the save rejects or,
\* in older Mongoose, resolves), then 200
UpdateNote_save(r) ==
    /\ req[r].pc = "un_save"
    /\ LET n == req[r].id
           l == Head(req[r].list)
           q == [req[r] EXCEPT !.list = <<>>] IN
       IF ~ValidNote(l.doc)
       THEN /\ req' = [req EXCEPT ![r] = Answer(q, 500)]
            /\ UNCHANGED notes
       ELSE IF l.modified = {}
       THEN /\ req' = [req EXCEPT ![r] = Answer(q, 200)]
            /\ UNCHANGED notes
       ELSE IF ~notes[n].exists
       THEN /\ \E status \in {200, 500} : req' = [req EXCEPT ![r] = Answer(q, status)]
            /\ UNCHANGED notes
       ELSE /\ notes' = [notes EXCEPT ![n] =
                           [f \in DOMAIN @ |-> IF f \in l.modified THEN l.doc[f] ELSE @[f]]]
            /\ req' = [req EXCEPT ![r] = Answer(Effect(q, "Note~"), 200)]
    /\ UNCHANGED <<users, bookmarks, jobs, applications, media, now, reply, serial>>

\* -------------------------------------------------- getNoteById, downloadNote
\* this.views += 1, this.downloads += 1
IncrementedTwice(v) == v + 2
Incremented(v) == v + 1

\* Note.findById, then the increment on the document that was read
CounterFind(r, op, counter, pc) ==
    /\ CanStart(r)
    /\ \E n \in NoteIds :
        LET q == Begin(r, op, 0, n, pc) IN
        req' = [req EXCEPT ![r] =
                  IF ~notes[n].exists THEN AnswerMsg(q, 404, "Note not found")
                  ELSE [q EXCEPT !.list = <<Incremented(notes[n][counter])>>]]
    /\ UNCHANGED <<users, notes, bookmarks, jobs, applications, media, now, reply, serial>>
\* this.save() writes the incremented value over the stored one; a note
\* deleted meanwhile is not written (the save rejects or, in older Mongoose,
\* resolves), then 200
CounterSave(r, counter, pc) ==
    /\ req[r].pc = pc
    /\ LET n == req[r].id
           q == [req[r] EXCEPT !.list = <<>>] IN
       IF notes[n].exists
       THEN /\ notes' = [notes EXCEPT ![n][counter] = Head(req[r].list)]
            /\ req' = [req EXCEPT ![r] = Answer(Effect(q, "Note." \o counter \o "~"), 200)]
       ELSE /\ \E status \in {200, 500} : req' = [req EXCEPT ![r] = Answer(q, status)]
            /\ UNCHANGED notes
    /\ UNCHANGED <<users, bookmarks, jobs, applications, media, now, reply, serial>>

GetNoteById_find(r) == CounterFind(r, "getNoteById", "views", "gn_save")
GetNoteById_incrementViews(r) == CounterSave(r, "views", "gn_save")
DownloadNote_find(r) == CounterFind(r, "downloadNote", "downloads", "dl_save")
DownloadNote_incrementDownloads(r) == CounterSave(r, "downloads", "dl_save")

\* isAdmin, then deleteNoteAdmin: Note.findById
DeleteNoteAdmin_find(r) ==
    /\ CanStart(r)
    /\ \E u \in Callers, n \in NoteIds :
        LET q == Begin(r, "deleteNoteAdmin", u, n, "dna_destroy") IN
        req' = [req EXCEPT ![r] =
                  IF ~IsAdminUser(u) THEN Answer(q, 403)
                  ELSE IF ~notes[n].exists THEN Answer(q, 404)
                  ELSE [q EXCEPT !.list = <<NoteRef(n)>>]]
    /\ UNCHANGED <<users, notes, bookmarks, jobs, applications, media, now, reply, serial>>
DeleteNoteAdmin_destroy(r) == DestroyStep(r, "dna_destroy", "dna_pullUser")
DeleteNoteAdmin_pullUser(r) == PullOwnerStep(r, "dna_pullUser", "dna_deleteRow")
DeleteNoteAdmin_deleteRow(r) == DeleteRowStep(r, "dna_deleteRow")

\* user.role === 'admin', of toggleUserStatus and deleteUser
TargetNeverAdmin(t) == FALSE
TargetIsAdmin(t) == users[t].role = "admin"

\* isAdmin, then toggleUserStatus: User.findById, the role check, the assignment
ToggleUserStatus_find(r) ==
    /\ CanStart(r)
    /\ \E u \in Callers, t \in UserIds :
        LET q == Begin(r, "toggleUserStatus", u, t, "tu_save") IN
        req' = [req EXCEPT ![r] =
                  IF ~IsAdminUser(u) THEN Answer(q, 403)
                  ELSE IF ~users[t].exists THEN Answer(q, 404)
                  ELSE IF TargetIsAdmin(t) THEN Answer(q, 400)
                  ELSE [q EXCEPT !.ans = ~users[t].isActive]]
    /\ UNCHANGED <<users, notes, bookmarks, jobs, applications, media, now, reply, serial>>

\* toggleUserStatus: user.save() writes the flag the handler assigned; a user
\* deleted meanwhile is not written (the save rejects or, in older Mongoose,
\* resolves), then 200
ToggleUserStatus_save(r) ==
    /\ req[r].pc = "tu_save"
    /\ LET t == req[r].id IN
       IF users[t].exists
       THEN /\ users' = [users EXCEPT ![t].isActive = req[r].ans]
            /\ req' = [req EXCEPT ![r] = Answer(Effect(@, "User.isActive~"), 200)]
       ELSE /\ \E status \in {200, 500} : req' = [req EXCEPT ![r] = Answer(@, status)]
            /\ UNCHANGED users
    /\ UNCHANGED <<notes, bookmarks, jobs, applications, media, now, reply, serial>>

\* isAdmin, then deleteUser: User.findById and the role check
DeleteUser_find(r) ==
    /\ CanStart(r)
    /\ \E u \in Callers, t \in UserIds :
        LET q == Begin(r, "deleteUser", u, t, "du_findNotes") IN
        req' = [req EXCEPT ![r] =
                  IF ~IsAdminUser(u) THEN Answer(q, 403)
                  ELSE IF ~users[t].exists THEN Answer(q, 404)
                  ELSE IF TargetIsAdmin(t) THEN Answer(q, 400)
                  ELSE q]
    /\ UNCHANGED <<users, notes, bookmarks, jobs, applications, media, now, reply, serial>>

\* deleteUser: Note.find({ uploadedBy: user._id })
NotesOf(u) ==
    LET S == {n \in NoteIds : notes[n].exists /\ notes[n].uploadedBy = u}
        ids == SortedIds(S, "asc")
    IN [i \in DOMAIN ids |-> NoteRef(ids[i])]
DeleteUser_findNotes(r) ==
    /\ req[r].pc = "du_findNotes"
    /\ LET found == NotesOf(req[r].id) IN
       req' = [req EXCEPT ![r] =
                 [@ EXCEPT !.list = found,
                           !.pc = IF found = <<>> THEN "du_deleteUser" ELSE "du_destroy"]]
    /\ UNCHANGED <<users, notes, bookmarks, jobs, applications, media, now, reply, serial>>

\* deleteUser, in the loop: cloudinary.uploader.destroy of the next note
DeleteUser_destroy(r) == DestroyStep(r, "du_destroy", "du_deleteNote")

\* deleteUser, in the loop: Note.findByIdAndDelete of that note
DeleteUser_deleteNote(r) ==
    /\ req[r].pc = "du_deleteNote"
    /\ LET n == Head(req[r].list).id
           rest == Tail(req[r].list)
           q == [req[r] EXCEPT !.list = rest,
                               !.pc = IF rest = <<>> THEN "du_deleteUser" ELSE "du_destroy"] IN
       IF notes[n].exists
       THEN /\ notes' = [notes EXCEPT ![n] = DeletedNote]
            /\ req' = [req EXCEPT ![r] = Effect(q, "Note-")]
       ELSE /\ req' = [req EXCEPT ![r] = q]
            /\ UNCHANGED notes
    /\ UNCHANGED <<users, bookmarks, jobs, applications, media, now, reply, serial>>

\* deleteUser: User.findByIdAndDelete, then 200
DeleteUser_deleteUser(r) ==
    /\ req[r].pc = "du_deleteUser"
    /\ LET t == req[r].id IN
       IF users[t].exists
       THEN /\ users' = [users EXCEPT ![t] = NoUser]
            /\ req' = [req EXCEPT ![r] = Answer(Effect(@, "User-"), 200)]
       ELSE /\ req' = [req EXCEPT ![r] = Answer(@, 200)]
            /\ UNCHANGED users
    /\ UNCHANGED <<notes, bookmarks, jobs, applications, media, now, reply, serial>>

\* users 1 (administrator) and 2 (student) are registered; 3 registers only
\* where a specification says so
InitUsers(registered) ==
    [u \in UserIds |->
        IF u \in registered
        THEN NewUser(IF u \in AdminIds THEN USER_ROLES.ADMIN ELSE USER_ROLES.STUDENT)
        ELSE NoUser]
\* notes n of `live`, uploaded by owner[n], each with file n in the media store
InitNotes(live, owner, type) ==
    [n \in NoteIds |->
        IF n \in live
        THEN CreatedNote(owner[n], type[n], n, GoodBody)
        ELSE NoNote]
InitMedia(ns) ==
    [f \in FileIds |->
        IF \E n \in NoteIds : ns[n].exists /\ ns[n].cloudinaryPublicId = f
        THEN LET n == CHOOSE n \in NoteIds : ns[n].exists /\ ns[n].cloudinaryPublicId = f
             IN [state |-> "stored", resourceType |-> ResourceType(ns[n].fileType)]
        ELSE NoFile]
WithUploads(us, ns) ==
    [u \in UserIds |->
        [us[u] EXCEPT !.uploadedNotes =
            SelectSeq(<<1, 2>>, LAMBDA n : n \in NoteIds /\ ns[n].exists /\ ns[n].uploadedBy = u)]]

\* --------------------------------------------------- bookmark specification
\* Users 1 and 2 are registered; note 1 exists, note 2 does not.
InitBookmarks ==
    /\ \E live \in {{1}} :
        /\ notes = InitNotes(live, [n \in NoteIds |-> 2], [n \in NoteIds |-> FILE_TYPES.PDF])
        /\ media = InitMedia(notes)
        /\ users = WithUploads(InitUsers({1, 2}), InitNotes(live, [n \in NoteIds |-> 2], [n \in NoteIds |-> FILE_TYPES.PDF]))
    /\ bookmarks = [p \in UserIds \X NoteIds |-> 0]
    /\ jobs = [j \in JobIds |-> NoJob]
    /\ applications = [p \in JobIds \X UserIds |-> 0]
    /\ now = 0
    /\ req = [r \in Slots |-> Idle]
    /\ reply = NoReply
    /\ serial \in BOOLEAN

NextBookmarks ==
    \E r \in Slots :
        \/ AddBookmark_findNote(r)
        \/ AddBookmark_findOne(r)
        \/ AddBookmark_create(r)
        \/ AddBookmark_pushUser(r)
        \/ AddBookmark_pushNote(r)
        \/ RemoveBookmark_findOneAndDelete(r)
        \/ RemoveBookmark_pullUser(r)
        \/ RemoveBookmark_pullNote(r)
        \/ CheckBookmark(r)

SpecBookmarks == InitBookmarks /\ [][NextBookmarks]_vars

\* Users 1 and 2 have both bookmarked note 1: a Bookmark row, the note in
\* User.bookmarks and the user in Note.bookmarkedBy, as addBookmark leaves them.
InitBookmarked ==
    /\ notes = [InitNotes({1}, [n \in NoteIds |-> 2], [n \in NoteIds |-> FILE_TYPES.PDF])
                   EXCEPT ![1].bookmarkedBy = <<1, 2>>]
    /\ media = InitMedia(notes)
    /\ users = [u \in UserIds |->
                  IF u \in {1, 2}
                  THEN [WithUploads(InitUsers({1, 2}), notes)[u] EXCEPT !.bookmarks = <<1>>]
                  ELSE NoUser]
    /\ bookmarks = [p \in UserIds \X NoteIds |-> IF p \in {<<1, 1>>, <<2, 1>>} THEN 1 ELSE 0]
    /\ jobs = [j \in JobIds |-> NoJob]
    /\ applications = [p \in JobIds \X UserIds |-> 0]
    /\ now = 0
    /\ req = [r \in Slots |-> Idle]
    /\ reply = NoReply
    /\ serial \in BOOLEAN

SpecBookmarked == InitBookmarked /\ [][NextBookmarks]_vars

\* -------------------------------------------------- job specifications
NewJob(type, status, deadline) ==
    [NoJob EXCEPT !.exists = TRUE, !.used = TRUE, !.type = type, !.status = status,
                  !.applicationDeadline = deadline, !.postedBy = 1]

\* Applications: job 1 is posted (any deadline), job 2 was never created.
InitJobs ==
    /\ users = InitUsers({1, 2})
    /\ notes = [n \in NoteIds |-> NoNote]
    /\ media = InitMedia(notes)
    /\ bookmarks = [p \in UserIds \X NoteIds |-> 0]
    /\ \E d \in 0..MaxTime :
        jobs = [j \in JobIds |-> IF j = 1 THEN NewJob("Job", "active", d) ELSE NoJob]
    /\ applications = [p \in JobIds \X UserIds |-> 0]
    /\ now = 0
    /\ req = [r \in Slots |-> Idle]
    /\ reply = NoReply
    /\ serial \in BOOLEAN

NextJobs ==
    \/ Tick
    \/ \E r \in Slots :
        \/ ApplyForJob_findJob(r)
        \/ ApplyForJob_findOne(r)
        \/ ApplyForJob_create(r)
        \/ ApplyForJob_updateJob(r)
        \/ DeleteJob_findJob(r)
        \/ DeleteJob_deleteMany(r)
        \/ DeleteJob_findByIdAndDelete(r)

SpecJobs == InitJobs /\ [][NextJobs]_vars

\* The public job board: a job (1) and an internship (2) are posted, each of
\* any status and deadline.
InitJobBoard ==
    /\ users = InitUsers({1, 2})
    /\ notes = [n \in NoteIds |-> NoNote]
    /\ media = InitMedia(notes)
    /\ bookmarks = [p \in UserIds \X NoteIds |-> 0]
    /\ \E st \in [JobIds -> JobStatuses], dl \in [JobIds -> 0..MaxTime] :
        jobs = [j \in JobIds |->
                  NewJob(IF j = 1 THEN "Job" ELSE "Internship", st[j], dl[j])]
    /\ applications = [p \in JobIds \X UserIds |-> 0]
    /\ now = 0
    /\ req = [r \in Slots |-> Idle]
    /\ reply = NoReply
    /\ serial = FALSE

NextJobBoard == Tick \/ GetJobs \/ GetJobById

SpecJobBoard == InitJobBoard /\ [][NextJobBoard]_vars

\* ----------------------------------------------------- note specification
\* Users 1 (administrator) and 2 (student) are registered.  Note 1 exists,
\* a PDF uploaded by either of them; note 2 is yet to be uploaded.
InitNotesSpec ==
    /\ \E o \in {1, 2} :
        /\ notes = InitNotes({1}, [n \in NoteIds |-> o], [n \in NoteIds |-> FILE_TYPES.PDF])
        /\ media = InitMedia(notes)
        /\ users = WithUploads(InitUsers({1, 2}), notes)
    /\ bookmarks = [p \in UserIds \X NoteIds |-> 0]
    /\ jobs = [j \in JobIds |-> NoJob]
    /\ applications = [p \in JobIds \X UserIds |-> 0]
    /\ now = 0
    /\ req = [r \in Slots |-> Idle]
    /\ reply = NoReply
    /\ serial \in BOOLEAN

UploadNote(r) ==
    \/ UploadNote_start(r, GoodFiles, {GoodBody})
    \/ UploadNote_upload(r)
    \/ UploadNote_create(r)
    \/ UploadNote_pushUser(r)
    \/ UploadNote_populate(r)

\* notes uploaded and deleted, by their owner or by the administrator
NextNotes ==
    \E r \in Slots :
        \/ UploadNote(r)
        \/ DeleteNote_find(r)
        \/ DeleteNote_destroy(r)
        \/ DeleteNote_pullUser(r)
        \/ DeleteNote_deleteRow(r)
        \/ DeleteNoteAdmin_find(r)
        \/ DeleteNoteAdmin_destroy(r)
        \/ DeleteNoteAdmin_pullUser(r)
        \/ DeleteNoteAdmin_deleteRow(r)

\* Note 1 exists, a file of one of `types` uploaded by the administrator or
\* by the student; note 2 is yet to be uploaded.
InitMediaSpec(types, modes) ==
    /\ \E o \in {1, 2}, t \in types :
        /\ notes = InitNotes({1}, [n \in NoteIds |-> o], [n \in NoteIds |-> t])
        /\ media = InitMedia(notes)
        /\ users = WithUploads(InitUsers({1, 2}), notes)
    /\ bookmarks = [p \in UserIds \X NoteIds |-> 0]
    /\ jobs = [j \in JobIds |-> NoJob]
    /\ applications = [p \in JobIds \X UserIds |-> 0]
    /\ now = 0
    /\ req = [r \in Slots |-> Idle]
    /\ reply = NoReply
    /\ serial \in modes

\* files uploaded, and deleted with their note or with their uploader
NextMedia(files) ==
    \E r \in 1..MaxMediaReq :
        \/ UploadNote_start(r, files, {GoodBody})
        \/ UploadNote_upload(r)
        \/ UploadNote_create(r)
        \/ UploadNote_pushUser(r)
        \/ UploadNote_populate(r)
        \/ DeleteNote_find(r)
        \/ DeleteNote_destroy(r)
        \/ DeleteNote_pullUser(r)
        \/ DeleteNote_deleteRow(r)
        \/ DeleteNoteAdmin_find(r)
        \/ DeleteNoteAdmin_destroy(r)
        \/ DeleteNoteAdmin_pullUser(r)
        \/ DeleteNoteAdmin_deleteRow(r)
        \/ DeleteUser_find(r)
        \/ DeleteUser_findNotes(r)
        \/ DeleteUser_destroy(r)
        \/ DeleteUser_deleteNote(r)
        \/ DeleteUser_deleteUser(r)

\* a document and an image, in any interleaving
SpecMedia ==
    /\ InitMediaSpec({FILE_TYPES.PDF, FILE_TYPES.PNG}, BOOLEAN)
    /\ [][NextMedia(GoodFiles \ {NoReqFile})]_vars
\* files of every accepted type, one request after the other
SpecMediaTypes ==
    /\ InitMediaSpec(ALLOWED_FILE_TYPES, {TRUE})
    /\ [][NextMedia({ReqFile(t, MAX_FILE_SIZE) : t \in ALLOWED_FILE_TYPES})]_vars

\* users deleted by the administrator while they upload
NextUsers ==
    \E r \in Slots :
        \/ UploadNote(r)
        \/ DeleteUser_find(r)
        \/ DeleteUser_findNotes(r)
        \/ DeleteUser_destroy(r)
        \/ DeleteUser_deleteNote(r)
        \/ DeleteUser_deleteUser(r)

SpecUsers == InitNotesSpec /\ [][NextUsers]_vars

SpecNotes == InitNotesSpec /\ [][NextNotes]_vars

\* jobs posted, edited, deleted, read and applied for
NextJobViews ==
    \/ GetJobById
    \/ \E r \in AdminSlots :
        \/ CreateJob(r, CreateBodies)
        \/ UpdateJob_find(r, JobBodies)
        \/ UpdateJob_update(r)
        \/ ApplyForJob_findJob(r)
        \/ ApplyForJob_findOne(r)
        \/ ApplyForJob_create(r)
        \/ ApplyForJob_updateJob(r)
        \/ DeleteJob_findJob(r)
        \/ DeleteJob_deleteMany(r)
        \/ DeleteJob_findByIdAndDelete(r)

SpecJobViews == InitJobs /\ [][NextJobViews]_vars

\* notes read and downloaded
NextCounters ==
    \E r \in Slots :
        \/ GetNoteById_find(r)
        \/ GetNoteById_incrementViews(r)
        \/ DownloadNote_find(r)
        \/ DownloadNote_incrementDownloads(r)

SpecCounters == InitNotesSpec /\ [][NextCounters]_vars

\* POST /notes with any file and any metadata, with and without a token
NextUpload ==
    \E r \in 1..MaxUploadReq :
        \/ Protect_reject(r, {"uploadNote"})
        \/ UploadNote_start(r, AllFiles, AllBodies)
        \/ UploadNote_upload(r)
        \/ UploadNote_create(r)
        \/ UploadNote_pushUser(r)
        \/ UploadNote_populate(r)

SpecUpload == InitNotesSpec /\ [][NextUpload]_vars

\* the routes behind isAdmin, called by the administrator, by a student and
\* without a token: a job is posted, a note is uploaded
InitAdminRoutes ==
    /\ notes = InitNotes({1}, [n \in NoteIds |-> 2], [n \in NoteIds |-> FILE_TYPES.PDF])
    /\ media = InitMedia(notes)
    /\ users = WithUploads(InitUsers({1, 2}), notes)
    /\ bookmarks = [p \in UserIds \X NoteIds |-> 0]
    /\ jobs = [j \in JobIds |-> IF j = 1 THEN NewJob("Job", "active", MaxTime) ELSE NoJob]
    /\ applications = [p \in JobIds \X UserIds |-> IF p = <<1, 2>> THEN 1 ELSE 0]
    /\ now = 0
    /\ req = [r \in Slots |-> Idle]
    /\ reply = NoReply
    /\ serial \in BOOLEAN

NextAdminRoutes ==
    \E r \in AdminSlots :
        \/ Protect_reject(r, AdminRoutes)
        \/ CreateJob(r, CreateBodies)
        \/ UpdateJob_find(r, JobBodies)
        \/ UpdateJob_update(r)
        \/ DeleteJob_findJob(r)
        \/ DeleteJob_deleteMany(r)
        \/ DeleteJob_findByIdAndDelete(r)
        \/ AdminRead(r)
        \/ ToggleUserStatus_find(r)
        \/ ToggleUserStatus_save(r)
        \/ DeleteUser_find(r)
        \/ DeleteUser_findNotes(r)
        \/ DeleteUser_destroy(r)
        \/ DeleteUser_deleteNote(r)
        \/ DeleteUser_deleteUser(r)
        \/ DeleteNoteAdmin_find(r)
        \/ DeleteNoteAdmin_destroy(r)
        \/ DeleteNoteAdmin_pullUser(r)
        \/ DeleteNoteAdmin_deleteRow(r)

SpecAdminRoutes == InitAdminRoutes /\ [][NextAdminRoutes]_vars

\* users deactivated and deleted by the administrator
NextAdminUsers ==
    \E r \in Slots :
        \/ ToggleUserStatus_find(r)
        \/ ToggleUserStatus_save(r)
        \/ DeleteUser_find(r)
        \/ DeleteUser_findNotes(r)
        \/ DeleteUser_destroy(r)
        \/ DeleteUser_deleteNote(r)
        \/ DeleteUser_deleteUser(r)

SpecAdminUsers == InitNotesSpec /\ [][NextAdminUsers]_vars

\* notes edited and deleted, by their owner, a stranger or the administrator
NextNoteEdit ==
    \E r \in Slots :
        \/ UpdateNote_find(r, TitleBodies)
        \/ UpdateNote_save(r)
        \/ DeleteNote_find(r)
        \/ DeleteNote_destroy(r)
        \/ DeleteNote_pullUser(r)
        \/ DeleteNote_deleteRow(r)

SpecNoteEdit == InitNotesSpec /\ [][NextNoteEdit]_vars

\* notes edited only
NextNoteUpdate ==
    \E r \in 1..MaxUpdateReq : UpdateNote_find(r, UpdateBodies) \/ UpdateNote_save(r)

SpecNoteUpdate == InitNotesSpec /\ [][NextNoteUpdate]_vars

\* ------------------------------------------------------- bookmark properties
BookmarkOps == {"addBookmark", "removeBookmark", "checkBookmark"}
Pair(r) == <<req[r].user, req[r].id>>

\* the pairs bookmarked after the first k requests of a serial run, from the
\* requests alone: an add on an existing note bookmarks, a remove unbookmarks
RECURSIVE Expected(_)
Expected(k) ==
    IF k = 0 THEN {}
    ELSE IF req[k].op = "addBookmark" /\ notes[req[k].id].exists
         THEN Expected(k - 1) \cup {Pair(k)}
         ELSE IF req[k].op = "removeBookmark"
              THEN Expected(k - 1) \ {Pair(k)}
              ELSE Expected(k - 1)

\* C1: whenever no bookmark request is in flight, for every user u and note n:
\* a Bookmark row (u, n) exists iff n is in u's bookmarks list iff u is in n's
\* bookmarkedBy list, and each list holds the entry at most once.
C1_ThreeViewsAgree ==
    Quiescent =>
        \A u \in UserIds, n \in NoteIds :
            (users[u].exists /\ notes[n].exists) =>
                /\ bookmarks[<<u, n>>] > 0 <=> Contains(users[u].bookmarks, n)
                /\ bookmarks[<<u, n>>] > 0 <=> Contains(notes[n].bookmarkedBy, u)
                /\ Count(users[u].bookmarks, n) <= 1
                /\ Count(notes[n].bookmarkedBy, u) <= 1

\* C9: when exactly two addBookmark requests are made for a (user, note) pair
\* (and no removeBookmark for it), one is answered 201 and the other 400,
\* never 500, however the two overlap.
C9_DuplicateAnswered400 ==
    \A r1, r2 \in Slots :
        (/\ r1 # r2 /\ IsDone(r1) /\ IsDone(r2)
         /\ req[r1].op = "addBookmark" /\ req[r2].op = "addBookmark"
         /\ Pair(r1) = Pair(r2) /\ notes[req[r1].id].exists
         /\ \A r3 \in Slots \ {r1, r2} :
               ~(req[r3].op \in {"addBookmark", "removeBookmark"} /\ Pair(r3) = Pair(r1)))
        => {req[r1].status, req[r2].status} = {201, 400}

\* C10: in a serial run on an existing note, an addBookmark of a pair already
\* bookmarked is answered 400 and changes nothing; once the pair is removed
\* again checkBookmark answers isBookmarked = false and removeBookmark 404.
C10_SerialBookmarkAnswers ==
    serial =>
        \A r \in Slots :
            (IsDone(r) /\ req[r].op \in BookmarkOps /\ notes[req[r].id].exists) =>
                /\ (req[r].op = "addBookmark" /\ Pair(r) \in Expected(r - 1))
                      => (req[r].status = 400 /\ req[r].eff = {})
                /\ (req[r].op = "checkBookmark" /\ Pair(r) \notin Expected(r - 1))
                      => (req[r].status = 200 /\ req[r].ans = FALSE)
                /\ (req[r].op = "removeBookmark" /\ Pair(r) \notin Expected(r - 1))
                      => (req[r].status = 404 /\ req[r].eff = {})
                /\ Quiescent =>
                      \A u \in UserIds, n \in NoteIds :
                          bookmarks[<<u, n>>] = IF <<u, n>> \in Expected(MaxReq) THEN 1 ELSE 0

\* add, remove, then check (false) by one user on one note, one after another
C10_Witness ==
    /\ serial /\ MaxReq >= 3
    /\ req[1].op = "addBookmark" /\ req[1].status = 201
    /\ req[2].op = "removeBookmark" /\ req[2].status = 200 /\ Pair(2) = Pair(1)
    /\ req[3].op = "checkBookmark" /\ IsDone(3) /\ Pair(3) = Pair(1) /\ req[3].ans = FALSE
\* ------------------------------------------------------------ job properties
\* C2: at most one Application row exists for each (job, applicant) pair.
C2_OneApplicationPerPair ==
    \A j \in JobIds, u \in UserIds : applications[<<j, u>>] <= 1

\* two applications for one pair were attempted and one of them stored a row
C2_Witness ==
    \E r1, r2 \in Slots :
        /\ r1 # r2 /\ req[r1].op = "applyForJob" /\ req[r2].op = "applyForJob"
        /\ req[r1].user = req[r2].user /\ req[r1].id = req[r2].id
        /\ req[r1].status = 201 /\ req[r2].status = 500
        /\ applications[<<req[r1].id, req[r1].user>>] = 1

\* C3: once deleteJob on a job has answered 200, no Application row
\* references that job, in that state and every later one.
C3_NoApplicationAfterDelete ==
    \A r \in Slots :
        (req[r].op = "deleteJob" /\ IsDone(r) /\ req[r].status = 200) =>
            \A u \in UserIds : applications[<<req[r].id, u>>] = 0

\* whether job j exists when the k-th request of a serial run arrives, and
\* whether u then has an application for it, from the requests before it
RECURSIVE JobDeletedBefore(_, _)
JobDeletedBefore(j, k) ==
    IF k = 1 THEN FALSE
    ELSE \/ JobDeletedBefore(j, k - 1)
         \/ req[k - 1].op = "deleteJob" /\ req[k - 1].id = j /\ req[k - 1].status = 200
AppliedBefore(j, u, k) ==
    \E i \in 1..(k - 1) :
        req[i].op = "applyForJob" /\ req[i].id = j /\ req[i].user = u /\ req[i].status = 201

\* the first step of an applyForJob, from the state it reads
ApplyFirstChecks ==
    \A r \in Slots :
        (req[r].pc = "idle" /\ req'[r].op = "applyForJob") =>
            LET j == req'[r].id IN
            /\ ~jobs[j].exists => (req'[r].pc = "done" /\ req'[r].status = 404)
            /\ (jobs[j].exists /\ jobs[j].applicationDeadline < now)
                  => (req'[r].pc = "done" /\ req'[r].status = 400)
ApplyRejections ==
    \A r \in Slots :
        (IsDone(r) /\ req[r].op = "applyForJob") =>
            /\ req[r].status \in {400, 404} => req[r].eff = {}
            /\ (serial /\ AppliedBefore(req[r].id, req[r].user, r)
                        /\ ~JobDeletedBefore(req[r].id, r))
                  => req[r].status = 400

\* C8: applyForJob answers 404 for an absent job; 400 for a job whose
\* deadline is before now, whoever calls and whether or not the caller has
\* applied; 400 for a second application (a serial run, the job still there);
\* and a request answered 404 or 400 has changed nothing.
C8_ApplyRejections == [][ApplyFirstChecks]_vars /\ []ApplyRejections

\* a caller who has applied applies again after the deadline: 400 (deadline)
C8_Witness ==
    /\ MaxReq >= 2
    /\ req[1].op = "applyForJob" /\ req[1].status = 201
    /\ req[2].op = "applyForJob" /\ req[2].id = req[1].id /\ req[2].user = req[1].user
    /\ req[2].status = 400 /\ req[2].msg = "Application deadline has passed"
    /\ applications[<<req[1].id, req[1].user>>] = 1
\* ------------------------------------------------------ job board properties
ReplyDocs == {reply.jobs[i] : i \in DOMAIN reply.jobs}

\* C6: a job is returned to a public caller, by GET /jobs or GET /jobs/:id,
\* only when its status is active and its deadline is not before the time of
\* the request.
C6_PublicSeesOnlyOpenActive ==
    (reply.op \in {"getJobs", "getJobById"} /\ reply.status = 200) =>
        \A d \in ReplyDocs : d.status = "active" /\ d.applicationDeadline >= reply.at

\* C7: GET /jobs without a status parameter returns only active jobs, with
\* one only jobs of that status, and in both cases only jobs whose deadline is
\* at or after the time of the request.
C7_GetJobsFilter ==
    reply.op = "getJobs" =>
        \A d \in ReplyDocs :
            /\ jobs[d.id].exists
            /\ d.status = jobs[d.id].status
            /\ d.applicationDeadline = jobs[d.id].applicationDeadline
            /\ d.status = IF reply.query[1] = Undefined THEN "active" ELSE reply.query[1]
            /\ d.applicationDeadline >= reply.at

\* GET /jobs?status=closed returned a closed job while another closed job,
\* past its deadline, was left out
C7_Witness ==
    /\ reply.op = "getJobs" /\ reply.query[1] = "closed" /\ reply.query[2] = Undefined
    /\ reply.query[3] = 1 /\ reply.query[4] = DefaultLimit
    /\ Len(reply.jobs) = 1 /\ reply.jobs[1].status = "closed"
    /\ \E j \in JobIds :
        jobs[j].exists /\ jobs[j].status = "closed" /\ jobs[j].applicationDeadline < reply.at
\* ----------------------------------------------------------- note properties
DeleteOps == {"deleteNote", "deleteNoteAdmin", "deleteUser"}

\* C4: a deleteNote, deleteNoteAdmin or deleteUser whose media-store delete
\* failed answers with an error and has removed no Note row, no User row and
\* no uploadedNotes entry.
C4_FailedDestroyRemovesNothing ==
    \A r \in Slots :
        (IsDone(r) /\ req[r].op \in DeleteOps /\ req[r].mediaFailed) =>
            /\ req[r].status = 500
            /\ req[r].eff \cap {"Note-", "User-", "User.uploadedNotes-"} = {}

\* C5: once deleteUser has answered 200, no Note row has uploadedBy equal to
\* the deleted user, in that state and every later one.
C5_NoNoteOfDeletedUser ==
    \A r \in Slots :
        (req[r].op = "deleteUser" /\ IsDone(r) /\ req[r].status = 200) =>
            \A n \in NoteIds : ~(notes[n].exists /\ notes[n].uploadedBy = req[r].id)

\* ------------------------------------------------------------ note properties
EditOps == {"updateNote", "deleteNote"}
\* the first step of an updateNote or deleteNote on an existing note, from the
\* state it reads
EditFirstCheck ==
    \A r \in Slots :
        (req[r].pc = "idle" /\ req'[r].op \in EditOps /\ notes[req'[r].id].exists) =>
            LET n == req'[r].id
                u == req'[r].user IN
            IF notes[n].uploadedBy # u /\ ~IsAdminUser(u)
            THEN /\ req'[r].pc = "done" /\ req'[r].status = 403
                 /\ UNCHANGED <<users, notes, media>>
            ELSE req'[r].status # 403
EditRejected ==
    \A r \in Slots :
        (IsDone(r) /\ req[r].op \in EditOps /\ req[r].status = 403) => req[r].eff = {}

\* C11: updateNote and deleteNote by a caller who is neither the uploader of
\* the note nor an administrator answer 403 in their first step, which changes
\* no user, note or file, and make no write afterwards; the uploader and any
\* administrator are not answered 403.
C11_OwnerOrAdminEdits == [][EditFirstCheck]_vars /\ []EditRejected

\* a stranger was refused an update and a delete, and the owner's update was
\* written
C11_Witness ==
    \E r1, r2, r3 \in Slots :
        /\ IsDone(r1) /\ req[r1].op = "updateNote" /\ req[r1].status = 403
        /\ IsDone(r2) /\ req[r2].op = "deleteNote" /\ req[r2].status = 403
        /\ IsDone(r3) /\ req[r3].op = "updateNote" /\ req[r3].status = 200
        /\ "Note~" \in req[r3].eff
        /\ notes[req[r3].id].uploadedBy = req[r3].user

\* getNotes: Note.find({ status: 'approved' }), without the optional filters
GetNotesFound == {n \in NoteIds : notes[n].exists /\ notes[n].status = "approved"}
\* getMyNotes: Note.find({ uploadedBy: req.user._id })
GetMyNotesFound(u) == {n \in NoteIds : notes[n].exists /\ notes[n].uploadedBy = u}
\* getNoteById and downloadNote: Note.findById finds nothing, 404
NoteNotFound(n) == ~notes[n].exists

NoteDeletes == {"deleteNote", "deleteNoteAdmin"}

\* C12: once a deleteNote or deleteNoteAdmin of note N has answered 200, N is
\* in no user's uploadedNotes list, neither listing returns it, and
\* getNoteById and downloadNote find nothing.
C12_DeletedNoteStaysGone ==
    \A r \in Slots :
        (IsDone(r) /\ req[r].op \in NoteDeletes /\ req[r].status = 200) =>
            LET n == req[r].id IN
            /\ \A u \in UserIds : ~Contains(users[u].uploadedNotes, n)
            /\ n \notin GetNotesFound
            /\ \A u \in UserIds : n \notin GetMyNotesFound(u)
            /\ NoteNotFound(n)

\* ------------------------------------------------------------ user properties
UserAdminOps == {"toggleUserStatus", "deleteUser"}
\* the first step of a toggleUserStatus or deleteUser that an administrator
\* aims at an administrator
AdminTargetRefused ==
    \A r \in Slots :
        (/\ req[r].pc = "idle" /\ req'[r].op \in UserAdminOps
         /\ IsAdminUser(req'[r].user) /\ IsAdminUser(req'[r].id)) =>
            /\ req'[r].pc = "done" /\ req'[r].status = 400
            /\ UNCHANGED <<users, notes, media>>
\* no step changes an administrator's row, notes or files
AdminUntouched ==
    /\ \A a \in UserIds : IsAdminUser(a) => users'[a] = users[a]
    /\ \A n \in NoteIds :
        (notes[n].exists /\ IsAdminUser(notes[n].uploadedBy)) =>
            /\ notes'[n] = notes[n]
            /\ media'[notes[n].cloudinaryPublicId] = media[notes[n].cloudinaryPublicId]

\* C13: toggleUserStatus and deleteUser aimed at an administrator answer 400
\* and change nothing; over any sequence of the two operations every
\* administrator's row stays as it is (it exists, same isActive) and none of
\* the administrator's notes or remote files is deleted.
C13_AdminsUntouched == [][AdminTargetRefused /\ AdminUntouched]_vars

\* both operations were refused on the administrator, who owns a note, and a
\* student was deleted
C13_Witness ==
    \E r1, r2, r3 \in Slots :
        /\ IsDone(r1) /\ req[r1].op = "toggleUserStatus" /\ req[r1].status = 400
        /\ IsDone(r2) /\ req[r2].op = "deleteUser" /\ req[r2].status = 400
        /\ IsDone(r3) /\ req[r3].op = "deleteUser" /\ req[r3].status = 200
        /\ "User-" \in req[r3].eff
        /\ \E n \in NoteIds : notes[n].exists /\ IsAdminUser(notes[n].uploadedBy)

\* ----------------------------------------------------- admin route properties
\* a request to an admin-only route whose caller is not an administrator
\* (roles are never changed: the administrators are those of AdminIds)
NonAdminCall(r) == req[r].op \in AdminRoutes /\ req[r].user \notin AdminIds
\* its first step is its last, and writes nothing
NonAdminStopped ==
    \A r \in Slots :
        (req[r].pc = "idle" /\ req'[r].op \in AdminRoutes /\ req'[r].user \notin AdminIds) =>
            /\ req'[r].pc = "done"
            /\ UNCHANGED <<users, notes, bookmarks, jobs, applications, media>>
NonAdminAnswer ==
    \A r \in Slots :
        (IsDone(r) /\ NonAdminCall(r)) =>
            /\ req[r].eff = {}
            /\ req[r].status = IF req[r].user = 0 THEN 401 ELSE 403

\* C14 (as stated): every admin-only route answers 403 to a caller whose role
\* is not admin or for whom no user was resolved, and does nothing for them.
C14_NonAdminAnswered403 ==
    \A r \in Slots :
        (IsDone(r) /\ NonAdminCall(r)) => (req[r].status = 403 /\ req[r].eff = {})

\* C14 (amended): every admin-only route answers 403 to a resolved caller
\* whose role is not admin, and 401 (from protect, which runs first) when no
\* user was resolved; in both cases the handler does not run and no job,
\* application, user or note is created, changed or deleted.
C14_NonAdminRefused == [][NonAdminStopped]_vars /\ []NonAdminAnswer

\* a student was refused and the administrator's request was carried out
C14_Witness ==
    \E r1, r2 \in Slots :
        /\ IsDone(r1) /\ NonAdminCall(r1) /\ req[r1].user # 0 /\ req[r1].status = 403
        /\ IsDone(r2) /\ req[r2].op \in AdminRoutes /\ req[r2].user \in AdminIds
        /\ req[r2].op = req[r1].op /\ req[r2].eff # {}

\* ---------------------------------------------------------- upload properties
\* the step in which the media store rejects the upload
UploadFailureStep ==
    \A r \in Slots :
        (req[r].pc = "up_upload" /\ req'[r] # req[r] /\ req'[r].mediaFailed) =>
            /\ req'[r].pc = "done" /\ req'[r].status = 500
            /\ UNCHANGED <<users, notes, media>>
UploadFailureAnswer ==
    \A r \in Slots :
        (req[r].op = "uploadNote" /\ req[r].mediaFailed) =>
            /\ IsDone(r) /\ req[r].status = 500
            /\ req[r].eff = {}

\* C15: when the media store rejects the upload, uploadNote answers with an
\* error (500) in that step, never calls the media store again, creates no
\* Note row and leaves the uploader's uploadedNotes list as it was.
C15_FailedUploadWritesNothing == [][UploadFailureStep]_vars /\ []UploadFailureAnswer

\* one upload was rejected by the media store, another went through
C15_Witness ==
    \E r1, r2 \in Slots :
        /\ IsDone(r1) /\ req[r1].op = "uploadNote" /\ req[r1].mediaFailed
        /\ IsDone(r2) /\ req[r2].op = "uploadNote" /\ req[r2].status = 201
        /\ req[r2].user = req[r1].user
        /\ Contains(users[req[r2].user].uploadedNotes, req[r2].nid)

\* the file and the metadata a POST /notes carried past protect
Carried(r) == Head(req[r].list)
BadFile(file) ==
    file.present /\ (file.mimetype \notin ALLOWED_FILE_TYPES \/ file.size > MAX_FILE_SIZE)
FileMessages ==
    {"Invalid file type. Only PDF, DOCX, DOC, JPG, and PNG are allowed.",
     "File size too large. Maximum size is 10MB."}
\* a request the stages stop is answered in its first step, which writes nothing
StagesStopFirst ==
    \A r \in Slots :
        (/\ req[r].pc = "idle" /\ req'[r].op = "uploadNote" /\ req'[r].user # 0
         /\ \/ BadFile(Head(req'[r].list).file)
            \/ ~NoteValidation(Head(req'[r].list).body)
            \/ ~Head(req'[r].list).file.present) =>
            /\ req'[r].pc = "done" /\ req'[r].status = 400
            /\ UNCHANGED <<users, notes, media>>
StagesInOrder ==
    \A r \in Slots :
        (req[r].op = "uploadNote" /\ req[r].pc # "idle") =>
            IF req[r].user = 0 THEN req[r].status = 401 /\ req[r].eff = {}
            ELSE LET file == Carried(r).file
                     meta == Carried(r).body IN
                 /\ BadFile(file) =>
                        /\ IsDone(r) /\ req[r].status = 400 /\ req[r].eff = {}
                        /\ req[r].msg \in FileMessages
                 /\ (~BadFile(file) /\ ~NoteValidation(meta)) =>
                        /\ IsDone(r) /\ req[r].status = 400 /\ req[r].eff = {}
                        /\ req[r].msg = "errors"
                 /\ (~file.present /\ NoteValidation(meta)) =>
                        /\ IsDone(r) /\ req[r].status = 400 /\ req[r].eff = {}
                        /\ req[r].msg = "Please upload a file"

\* C16: on POST /notes the stages run in the order authentication, file type
\* and size, metadata validation, upload: a file of another MIME type than
\* PDF/DOC/DOCX/JPEG/PNG or of more than 10 MB is answered 400 by the file
\* stage and never reaches uploadNote; a request that fails the metadata
\* validation or carries no file is answered 400 with no media-store call and
\* no Note row.
C16_UploadStages == [][StagesStopFirst]_vars /\ []StagesInOrder

\* a file of a wrong type and a good body were refused by the file stage, and
\* a good request was uploaded
C16_Witness ==
    \E r1, r2 \in Slots :
        /\ IsDone(r1) /\ req[r1].op = "uploadNote" /\ req[r1].status = 400
        /\ req[r1].user # 0 /\ Carried(r1).file.mimetype = "text/plain"
        /\ NoteValidation(Carried(r1).body)
        /\ IsDone(r2) /\ req[r2].op = "uploadNote" /\ req[r2].status = 201
        /\ "Note+" \in req[r2].eff

\* --------------------------------------------------------- counter properties
\* the requests of `op` on note n that were answered 200
Served(op, n) ==
    {r \in Slots : IsDone(r) /\ req[r].op = op /\ req[r].id = n /\ req[r].status = 200}
CounterBounds(op, counter) ==
    \A n \in NoteIds :
        notes[n].exists =>
            LET k == Cardinality(Served(op, n)) IN
            /\ notes[n][counter] <= k
            /\ k >= 1 => notes[n][counter] >= 1
            /\ serial => notes[n][counter] = k

\* C17: each getNoteById answered 200 raises the note's views by exactly one
\* when the calls do not overlap; when k calls overlap the views have risen by
\* at least 1 and at most k once they are done; the downloads, which only
\* downloadNote changes, obey the same bounds.
C17_CountersWithinBounds ==
    /\ CounterBounds("getNoteById", "views")
    /\ CounterBounds("downloadNote", "downloads")

\* two overlapping reads of a note counted as one, and a download as one
C17_Witness ==
    \E n \in NoteIds :
        /\ Quiescent /\ ~serial /\ notes[n].exists
        /\ Cardinality(Served("getNoteById", n)) = 2 /\ notes[n].views = 1
        /\ Cardinality(Served("downloadNote", n)) = 1 /\ notes[n].downloads = 1

\* ------------------------------------------------------ applicants properties
\* the applicants list of job j holds the applicants of its Application rows,
\* each once, and the views count them
ApplicantsMatch(j) ==
    /\ \A u \in UserIds :
        /\ applications[<<j, u>>] <= 1
        /\ Count(jobs[j].applicants, u) = applications[<<j, u>>]
    /\ jobs[j].views = Len(jobs[j].applicants)
\* a request that gave job j its applicants or views in a body
Overwrote(j, tags) == \E r \in Slots : req[r].id = j /\ req[r].eff \cap tags # {}
\* the $push and $inc of an application that finds its job
ApplyCounts ==
    \A r \in Slots :
        (req[r].pc = "apply_updateJob" /\ req'[r].pc = "done" /\ jobs[req[r].id].exists) =>
            LET j == req[r].id IN
            /\ jobs'[j].applicants = Append(jobs[j].applicants, req[r].user)
            /\ jobs'[j].views = jobs[j].views + 1
            /\ applications[<<j, req[r].user>>] <= 1
\* getJobById writes nothing
ReadCounts == reply' # reply => (jobs' = jobs /\ applications' = applications)

\* C18 (as stated): whenever no request is in flight and updateJob has not
\* overwritten the fields, each job's applicants are those of its Application
\* rows, each once, and its views equal their number.
C18_ApplicantsMatchUnlessUpdated ==
    Quiescent =>
        \A j \in JobIds :
            (jobs[j].exists /\ ~Overwrote(j, {"Job.views~"})) => ApplicantsMatch(j)

\* C18 (amended): a successful applyForJob creates one Application, appends
\* the applicant and raises the views by one; getJobById changes neither;
\* whenever no request is in flight and neither createJob nor updateJob has
\* given the job's applicants or views in its body, the applicants are those
\* of its Application rows, each once, and the views equal their number.
C18_ApplicantsMatch ==
    /\ [][ApplyCounts /\ ReadCounts]_vars
    /\ [](Quiescent =>
            \A j \in JobIds :
                (jobs[j].exists /\ ~Overwrote(j, {"Job.views~", "Job.views="}))
                    => ApplicantsMatch(j))

\* an application was counted on a job that was read
C18_Witness ==
    \E r \in Slots, j \in JobIds :
        /\ Quiescent /\ jobs[j].exists /\ ~Overwrote(j, {"Job.views~", "Job.views="})
        /\ req[r].op = "applyForJob" /\ req[r].id = j /\ req[r].status = 201
        /\ jobs[j].views = 1 /\ jobs[j].applicants = <<req[r].user>>
        /\ reply.op = "getJobById" /\ reply.status = 200

\* ---------------------------------------------------------- update properties
\* the fields of the notes that a step has changed
Changed(n) == {f \in DOMAIN NoNote : notes'[n][f] # notes[n][f]}
\* a step of an updateNote changes only fields that its body provides, in the
\* note it is about
UpdateWrites ==
    \A r \in Slots :
        (req'[r].op = "updateNote" /\ req'[r] # req[r]) =>
            \A n \in NoteIds :
                IF req[r].pc = "un_save" /\ n = req[r].id
                THEN Changed(n) \subseteq (EditableFields \cap Head(req[r].list).provided)
                ELSE Changed(n) = {}

\* C19: updateNote overwrites only the fields among title, description,
\* subject, semester, branch and tags that the request provides; a field
\* absent from the request keeps its value, and fileUrl, fileType,
\* cloudinaryPublicId, uploadedBy, status, views, downloads and bookmarkedBy
\* are never changed by an update.
C19_UpdateWritesProvidedOnly == [][UpdateWrites]_vars

\* an update of the semester and the tags was written and left the title, the
\* description, the subject and the branch as they were
C19_Witness ==
    \E r \in Slots, n \in NoteIds :
        /\ IsDone(r) /\ req[r].op = "updateNote" /\ req[r].id = n /\ req[r].status = 200
        /\ notes[n].exists /\ notes[n].semester = 2 /\ notes[n].tags = <<<<"a">>, <<"b">>>>
        /\ notes[n].title = GoodBody.title /\ notes[n].description = GoodBody.description
        /\ notes[n].subject = GoodBody.subject /\ notes[n].branch = GoodBody.branch

\* ------------------------------------------------- uploadedNotes properties
\* C20: whenever no request is in flight (the model has no failing database
\* call), the uploadedNotes list of every existing user holds exactly the
\* existing notes that the user uploaded, each once, after any interleaving of
\* uploadNote, deleteNote and deleteNoteAdmin.
C20_UploadedNotesMatchNotes ==
    Quiescent =>
        \A u \in UserIds :
            users[u].exists =>
                \A n \in NoteIds :
                    Count(users[u].uploadedNotes, n) =
                        IF notes[n].exists /\ notes[n].uploadedBy = u THEN 1 ELSE 0

\* ---------------------------------------------------------------------- C21
StoredFiles == {f \in FileIds : media[f].state = "stored"}
NoteFiles == {notes[n].cloudinaryPublicId : n \in {m \in NoteIds : notes[m].exists}}
NoCallFailed == \A r \in Slots : ~req[r].mediaFailed /\ req[r].status # 500
\* C21: whenever no request is in flight and no call has failed, the files
\* the media store holds are exactly the cloudinaryPublicId values of the
\* existing Note rows (no orphaned file, no note pointing at a deleted file),
\* after any interleaving of uploadNote, deleteNote, deleteNoteAdmin and
\* deleteUser.
C21_FilesMatchNotes == (Quiescent /\ NoCallFailed) => StoredFiles = NoteFiles
\* an upload and a delete that removed a file overlapped and both completed
C21_Witness ==
    /\ ~serial /\ Quiescent /\ NoCallFailed
    /\ \E r1, r2 \in Slots :
        /\ req[r1].op = "uploadNote" /\ req[r1].status = 201
        /\ req[r2].op \in {"deleteNote", "deleteNoteAdmin", "deleteUser"}
        /\ req[r2].status = 200 /\ "File-" \in req[r2].eff
    /\ StoredFiles # {}

\* ---------------------------------------------------------------------- C22
\* image for the types starting with image/, raw for all others
ExpectedResourceType(type) ==
    IF type \in {"image/jpeg", "image/png"} THEN "image" ELSE "raw"
\* the stored file of a note is held under the expected resource type
UploadedAsExpected ==
    \A n \in NoteIds :
        (notes[n].exists /\ notes[n].cloudinaryPublicId \in StoredFiles)
            => media[notes[n].cloudinaryPublicId].resourceType
                   = ExpectedResourceType(notes[n].fileType)
DestroyPositions == {"dn_destroy", "dna_destroy", "du_destroy"}
\* a destroy that resolves for a stored file finds it under its resource type
DestroyedAsUploaded ==
    \A r \in Slots :
        (/\ req[r].pc \in DestroyPositions
         /\ req'[r].pc # req[r].pc /\ ~req'[r].mediaFailed
         /\ Head(req[r].list).cloudinaryPublicId \in StoredFiles)
            => LET f == Head(req[r].list).cloudinaryPublicId IN
               /\ media[f].resourceType = ExpectedResourceType(Head(req[r].list).fileType)
               /\ media'[f].state = "destroyed"
\* C22: for every accepted MIME type (PDF, DOC, DOCX, JPEG, PNG) the
\* resource type used when deleteNote, deleteNoteAdmin or deleteUser deletes
\* a note's file equals the one used when the file was uploaded: image for
\* the types starting with image/, raw for all others.
C22_DestroyedAsUploaded == []UploadedAsExpected /\ [][DestroyedAsUploaded]_vars
\* an image and a document were uploaded and both were deleted again
C22_Witness ==
    /\ \A f \in FileIds : media[f].state = "destroyed"
    /\ {media[f].resourceType : f \in FileIds} = {"image", "raw"}
    /\ \E r \in Slots :
        /\ req[r].op \in {"deleteNote", "deleteNoteAdmin", "deleteUser"}
        /\ req[r].status = 200 /\ "File-" \in req[r].eff

\* ---------------------------------------------------------------------- C23
\* the pairs bookmarked before the first request
BookmarkedPairs == {<<1, 1>>, <<2, 1>>}
\* the request deleted the Bookmark row
TookRow(r) == "Bookmark-" \in req[r].eff
\* two removeBookmark requests for one bookmarked pair, and no other add or
\* remove for it
TwoRemoves(r1, r2) ==
    /\ r1 # r2 /\ req[r1].op = "removeBookmark" /\ req[r2].op = "removeBookmark"
    /\ Pair(r1) = Pair(r2) /\ Pair(r1) \in BookmarkedPairs
    /\ \A r3 \in Slots \ {r1, r2} :
          ~(req[r3].op \in {"addBookmark", "removeBookmark"} /\ Pair(r3) = Pair(r1))
\* C23: when two removeBookmark requests by the same user for the same
\* bookmarked note overlap, exactly one of them deletes the row and answers
\* 200 and the other answers 404, and once both have completed no Bookmark
\* row, no User.bookmarks entry and no Note.bookmarkedBy entry for the pair
\* remains.
C23_OneRemoveWins ==
    \A r1, r2 \in Slots :
        TwoRemoves(r1, r2) =>
            /\ TookRow(r1) # TookRow(r2)
            /\ \A r \in {r1, r2} :
                  /\ ~TookRow(r) => (IsDone(r) /\ req[r].status = 404 /\ req[r].eff = {})
                  /\ (TookRow(r) /\ IsDone(r)) => req[r].status = 200
            /\ (IsDone(r1) /\ IsDone(r2)) =>
                  /\ {req[r1].status, req[r2].status} = {200, 404}
                  /\ bookmarks[Pair(r1)] = 0
                  /\ ~Contains(users[req[r1].user].bookmarks, req[r1].id)
                  /\ ~Contains(notes[req[r1].id].bookmarkedBy, req[r1].user)
\* the second remove was answered 404 while the first, which had deleted the
\* row, was still to pull the user from the note
C23_Witness ==
    \E r1, r2 \in Slots :
        /\ TwoRemoves(r1, r2)
        /\ req[r1].pc = "rm_pullNote" /\ TookRow(r1)
        /\ IsDone(r2) /\ req[r2].status = 404
====
